---- MODULE Spec2Model ----
(***************************************************************************)
(* Verification model of the planning client: the history aggregator,      *)
(* the posted-history row, the planning edit panel, the related-articles   *)
(* search modal, the coverage assignment modal and the array-field         *)
(* editor.  Every component has its own specification over                 *)
(* the shared variables; the variables of the other components stay at     *)
(* their initial values.                                                   *)
(*                                                                         *)
(* JavaScript objects are functions from the keys they hold to values; a   *)
(* key that is absent is not in DOMAIN.  lodash get(o, path) is Has/At.    *)
(***************************************************************************)
EXTENDS Integers, Sequences, FiniteSets, TLC

VARIABLES
    \* history aggregator
    historyItems,       \* the list of history entries handed to the helpers
    planningHistory,    \* result of getPlanningItemHistory (<<>> before the call)
    covHistory,         \* result of getGroupedCoverageHistory
    historyCalled,      \* the helpers have been applied to historyItems
    historyInput,       \* the list as it was handed to the history panel
    firstRender,        \* what the first application of the helpers returned
    \* planning edit panel: props
    pristine,           \* redux-form: the form holds no unsaved change
    submitting,         \* redux-form: the promise of a submit is pending
    readOnly,           \* the caller-supplied read-only state
    lockedInThisSession,
    planningSpiked,     \* isItemSpiked(planning)
    eventSpiked,        \* isItemSpiked(event)
    showSave,           \* planningUtils.canSavePlanning(planning, event)
    showPublish,        \* planningUtils.canPublishPlanning(planning, event)
    showUnpublish,      \* planningUtils.canUnpublishPlanning(planning, event)
    notForPublication,
    \* planning edit panel: state
    saveMethod,
    previewHistory,
    \* planning edit panel: what the last button press did
    lastPress,          \* [button, pristine, readOnly, dispatched]
    \* array-field editor: props
    value,              \* the list, owned by the parent form
    arrayReadOnly,      \* readOnly
    addOnly,
    originalCount,
    maxCount,
    label,              \* the label text, "" when there is none
    buttonWithLabel,
    \* array-field editor: environment
    confirms,           \* the open confirmation prompts, each with remove's index
    effects,            \* what the last handler run called, in order
    lastHandler,        \* the last handler run, with the list it found
    addThenRemove,      \* [phase, before]: an add followed at once by remove(last)
    \* related-articles search modal: state
    searchQuery,
    activeLanguage,     \* activeLanguage.code
    repo,               \* the provider id: "null", "undefined" or an id
    languages,          \* the codes of state.languages
    loading,
    \* related-articles search modal: environment
    providerLookup,     \* the /search_providers request of componentDidMount
    providerListed,     \* the configured name is among the providers returned
    paginationInstance, \* the mounted WithPagination (a new one for every new key)
    pageItems,          \* what the mounted WithPagination shows
    inFlight,           \* the /search_providers_proxy requests not yet answered
    fetchCount,         \* requests sent so far; the last one sent has this id
    abortedFetches,     \* ids of the requests ended by their abort signal
    staleApplied,       \* a response of a request that was not the last one ran its .then
    loadingClearedBy,   \* the WithPagination whose request last set loading to false
    \* related-articles search modal: the selection
    selectedArticles,   \* props.selectedArticles
    currentlySelectedArticles,
    previewItem,        \* the guid of state.previewItem, "null" for null
    searchOnChangeCalls, \* the arguments of the calls of props.onChange
    closedBy,           \* what called closeModal, "none" while the modal is open
    \* coverage assignment modal: state
    modalShown,         \* the modal is mounted
    diff,               \* state.diff: the reference of the draft
    modalValid,         \* state.valid
    modalSubmitting,    \* state.submitting
    \* coverage assignment modal: environment
    heap,               \* the objects shared by reference, by reference
    modalValue,         \* modalProps.value: the reference of the caller's value
    modalCalls,         \* the calls of handleHide and of the modalProps callbacks
    valueAtOpen,        \* the content of the caller's value when the modal opened
    lastEdit,           \* the last onChange: its path, its value, the draft it found
    edits,              \* the last value given to each path since the modal opened
    lastClose,          \* how the modal was closed
    \* posted-history row
    postedItems,        \* the history entries of the item on display
    postedIndex,        \* the index getPostedHistoryElement was last called with
    postedElement       \* what that call returned

historyVars == <<historyItems, planningHistory, covHistory, historyCalled,
                 historyInput, firstRender>>

panelProps == <<readOnly, lockedInThisSession, planningSpiked, eventSpiked,
                showSave, showPublish, showUnpublish, notForPublication>>

panelVars == <<pristine, submitting, panelProps, saveMethod, previewHistory, lastPress>>

arrayProps == <<arrayReadOnly, addOnly, originalCount, maxCount, label, buttonWithLabel>>

arrayVars == <<value, arrayProps, confirms, effects, lastHandler, addThenRemove>>

selectionVars == <<selectedArticles, currentlySelectedArticles, previewItem,
                   searchOnChangeCalls, closedBy>>

searchVars == <<searchQuery, activeLanguage, repo, languages, loading, providerLookup,
                providerListed, paginationInstance, pageItems, inFlight, fetchCount,
                abortedFetches, staleApplied, loadingClearedBy, selectionVars>>

modalVars == <<modalShown, diff, modalValid, modalSubmitting, heap, modalValue,
               modalCalls, valueAtOpen, lastEdit, edits, lastClose>>

postedVars == <<postedItems, postedIndex, postedElement>>

vars == <<historyVars, panelVars, arrayVars, searchVars, modalVars, postedVars>>

notHistoryVars == <<panelVars, arrayVars, searchVars, modalVars, postedVars>>

notPanelVars == <<historyVars, arrayVars, searchVars, modalVars, postedVars>>

notArrayVars == <<historyVars, panelVars, searchVars, modalVars, postedVars>>

notSearchVars == <<historyVars, panelVars, arrayVars, modalVars, postedVars>>

notModalVars == <<historyVars, panelVars, arrayVars, searchVars, postedVars>>

notPostedVars == <<historyVars, panelVars, arrayVars, searchVars, modalVars>>

(***************************************************************************)
(* Objects                                                                 *)
(***************************************************************************)
EmptyObject == [k \in {} |-> TRUE]

Has(o, k) == k \in DOMAIN o

\* object with key k set to v, the other keys kept
SetKey(o, k, v) == (k :> v) @@ o

\* {...a, ...b}: the keys of both, b's value where both hold the key
Spread(a, b) == b @@ a

(***************************************************************************)
(* History entries.  An entry is {update: {coverage_id?, planning?,        *)
(* assigned_to?, workflow_status?}}.  Coverage ids are the backend's       *)
(* generated ids: non-empty strings, none of them a lodash path into       *)
(* another group.  All values carried are truthy.                          *)
(***************************************************************************)
MaxHistory == 3

CoverageIds == {"cov1", "cov2"}

\* scheduled timestamps are ISO strings as the backend writes them; their
\* instant is in minutes of the day, UTC
\* moment(value): the moment object of an ISO timestamp; it keeps the
\* instant, not the text
moment(s) ==
    [_isAMomentObject |-> TRUE,
     instant |-> CASE s = "2024-01-01T10:00:00+0000" -> 600
                   [] s = "2024-01-01T12:00:00+0000" -> 720
                   [] s = "2024-01-01T11:00:00+0100" -> 600]

UpdatePayloads ==
    { EmptyObject,
      [planning |-> [g2_content_type |-> "text", scheduled |-> "2024-01-01T10:00:00+0000"]],
      [planning |-> [g2_content_type |-> "picture"]],
      [planning |-> [scheduled |-> "2024-01-01T12:00:00+0000"]],
      [planning |-> [scheduled |-> "2024-01-01T11:00:00+0100"]],
      [assigned_to |-> [desk |-> "desk1", user |-> "user1"]],
      [assigned_to |-> [desk |-> "desk2"]],
      [workflow_status |-> "draft"],
      [workflow_status |-> "active"] }

\* the payloads of the entries without a coverage id: the helpers read
\* nothing of them but the missing coverage id
PlanningPayloads ==
    { EmptyObject,
      [planning |-> [g2_content_type |-> "picture"]],
      [workflow_status |-> "draft"] }

HistoryEntries ==
    { [update |-> u] : u \in PlanningPayloads }
    \cup { [update |-> SetKey(u, "coverage_id", c)] : u \in UpdatePayloads, c \in CoverageIds }

HistoryLists == UNION { [1..n -> HistoryEntries] : n \in 0..MaxHistory }

\* get(item, 'update.coverage_id')
HasCoverageId(item) == Has(item.update, "coverage_id")

\* get(item, 'update.planning.<field>')
HasPlanningField(item, f) == Has(item.update, "planning") /\ Has(item.update.planning, f)

(***************************************************************************)
(* getPlanningItemHistory                                                  *)
(***************************************************************************)
RECURSIVE getPlanningItemHistory(_)
getPlanningItemHistory(items) ==
    IF items = <<>> THEN <<>>
    ELSE IF ~HasCoverageId(Head(items))
         THEN <<Head(items)>> \o getPlanningItemHistory(Tail(items))
         ELSE getPlanningItemHistory(Tail(items))

(***************************************************************************)
(* getGroupedCoverageHistory: the body of the forEach, then the loop       *)
(***************************************************************************)
NewCoverageGroup == [items |-> <<>>, planning |-> EmptyObject, assigned_to |-> EmptyObject]

\* mutant: the entry is put in front of the group's items
GroupWithItem_Prepend(g, item) == [g EXCEPT !.items = <<item>> \o g.items]

\* mutant: the group's items are replaced, not extended
GroupWithItem_Replaced(g, item) == [g EXCEPT !.items = <<item>>]

GroupWithItem(g, item) == [g EXCEPT !.items = Append(g.items, item)]

GroupWithContentType(g, item) ==
    IF HasPlanningField(item, "g2_content_type")
    THEN [g EXCEPT !.planning = SetKey(g.planning, "g2_content_type", item.update.planning.g2_content_type)]
    ELSE g

GroupWithScheduled(g, item) ==
    IF HasPlanningField(item, "scheduled")
    THEN [g EXCEPT !.planning = SetKey(g.planning, "scheduled", moment(item.update.planning.scheduled))]
    ELSE g

\* mutant: the entry's assigned_to replaces the aggregate instead of merging
GroupWithAssignedTo_Overwrite(g, item) ==
    IF Has(item.update, "assigned_to")
    THEN [g EXCEPT !.assigned_to = item.update.assigned_to]
    ELSE g

GroupWithAssignedTo(g, item) ==
    IF Has(item.update, "assigned_to")
    THEN [g EXCEPT !.assigned_to = Spread(g.assigned_to, item.update.assigned_to)]
    ELSE g

\* mutant: the first workflow status is kept
GroupWithWorkflowStatus_FirstWins(g, item) ==
    IF Has(item.update, "workflow_status") /\ ~Has(g, "workflow_status")
    THEN SetKey(g, "workflow_status", item.update.workflow_status)
    ELSE g

GroupWithWorkflowStatus(g, item) ==
    IF Has(item.update, "workflow_status")
    THEN SetKey(g, "workflow_status", item.update.workflow_status)
    ELSE g

CoverageHistoryStep(cov, item) ==
    IF HasCoverageId(item)
    THEN LET id == item.update.coverage_id
             g0 == IF Has(cov, id) THEN cov[id] ELSE NewCoverageGroup
             g1 == GroupWithItem(g0, item)
             g2 == GroupWithContentType(g1, item)
             g3 == GroupWithScheduled(g2, item)
             g4 == GroupWithAssignedTo(g3, item)
             g5 == GroupWithWorkflowStatus(g4, item)
         IN  SetKey(cov, id, g5)
    ELSE cov

RECURSIVE CoverageHistoryLoop(_, _)
CoverageHistoryLoop(cov, items) ==
    IF items = <<>> THEN cov
    ELSE CoverageHistoryLoop(CoverageHistoryStep(cov, Head(items)), Tail(items))

getGroupedCoverageHistory(items) == CoverageHistoryLoop(EmptyObject, items)

(***************************************************************************)
(* The assignments of the helpers, each with the object it writes to and   *)
(* the path it writes.  The object is named by where it comes from:        *)
(* "history" and "covHistory" are the array and the object the helpers     *)
(* make for their result, and the groups, their items, planning and        *)
(* assigned_to are made by the helper too; "historyItems" is the input.    *)
(***************************************************************************)
Write(root, path, v) == [root |-> root, path |-> path, value |-> v]

WriteIf(cond, w) == IF cond THEN <<w>> ELSE <<>>

\* getPlanningItemHistory, the body of the forEach for the entry at i
PlanningHistoryWrites(items, i) ==
    WriteIf(~HasCoverageId(items[i]), Write("history", <<"push">>, items[i]))

\* getGroupedCoverageHistory, the body of the forEach for the entry at i
\* mutant: the merged assignment is written into the entry's assigned_to
CoverageHistoryWrites_InPlace(items, i) ==
    IF ~HasCoverageId(items[i]) THEN <<>>
    ELSE LET item == items[i]
             id == item.update.coverage_id
         IN  <<Write("covHistory", <<id, "items">>, item)>>
             \o WriteIf(HasPlanningField(item, "g2_content_type"),
                        Write("covHistory", <<id, "planning", "g2_content_type">>,
                              item.update.planning.g2_content_type))
             \o WriteIf(HasPlanningField(item, "scheduled"),
                        Write("covHistory", <<id, "planning", "scheduled">>,
                              moment(item.update.planning.scheduled)))
             \o WriteIf(Has(item.update, "assigned_to"),
                        Write("historyItems", <<i, "update", "assigned_to">>,
                              getGroupedCoverageHistory(SubSeq(items, 1, i))[id].assigned_to))
             \o WriteIf(Has(item.update, "assigned_to"),
                        Write("covHistory", <<id, "assigned_to">>, item.update.assigned_to))
             \o WriteIf(Has(item.update, "workflow_status"),
                        Write("covHistory", <<id, "workflow_status">>,
                              item.update.workflow_status))

CoverageHistoryWrites(items, i) ==
    IF ~HasCoverageId(items[i]) THEN <<>>
    ELSE LET item == items[i]
             id == item.update.coverage_id
         IN  <<Write("covHistory", <<id, "items">>, item)>>
             \o WriteIf(HasPlanningField(item, "g2_content_type"),
                        Write("covHistory", <<id, "planning", "g2_content_type">>,
                              item.update.planning.g2_content_type))
             \o WriteIf(HasPlanningField(item, "scheduled"),
                        Write("covHistory", <<id, "planning", "scheduled">>,
                              moment(item.update.planning.scheduled)))
             \o WriteIf(Has(item.update, "assigned_to"),
                        Write("covHistory", <<id, "assigned_to">>, item.update.assigned_to))
             \o WriteIf(Has(item.update, "workflow_status"),
                        Write("covHistory", <<id, "workflow_status">>,
                              item.update.workflow_status))

\* an object with the value at a path replaced
RECURSIVE SetIn(_, _, _)
SetIn(o, path, v) ==
    IF Len(path) = 1 THEN SetKey(o, path[1], v)
    ELSE SetKey(o, path[1], SetIn(o[path[1]], Tail(path), v))

\* the input after a list of writes: those to the input take effect in it
RECURSIVE InputAfterWrites(_, _)
InputAfterWrites(items, writes) ==
    IF writes = <<>> THEN items
    ELSE InputAfterWrites(IF Head(writes).root = "historyItems"
                          THEN SetIn(items, Head(writes).path, Head(writes).value)
                          ELSE items,
                          Tail(writes))

\* the input after the forEach of both helpers, from the entry at i on
RECURSIVE InputAfterLoops(_, _)
InputAfterLoops(items, i) ==
    IF i > Len(items) THEN items
    ELSE InputAfterLoops(
             InputAfterWrites(items, PlanningHistoryWrites(items, i)
                                         \o CoverageHistoryWrites(items, i)),
             i + 1)

(***************************************************************************)
(* The history panel: it is given a list of entries and derives both       *)
(* views from it, on every render.                                         *)
(***************************************************************************)
MaxRenders == 2

NoRender == [n |-> 0, planning |-> <<>>, cov |-> EmptyObject]

HistoryInit ==
    /\ historyItems \in HistoryLists
    /\ planningHistory = <<>>
    /\ covHistory = EmptyObject
    /\ historyCalled = FALSE
    /\ historyInput = historyItems
    /\ firstRender = NoRender

HistoryIdle ==
    /\ historyItems = <<>>
    /\ planningHistory = <<>>
    /\ covHistory = EmptyObject
    /\ historyCalled = FALSE
    /\ historyInput = <<>>
    /\ firstRender = NoRender

RenderHistory ==
    /\ firstRender.n < MaxRenders
    /\ planningHistory' = getPlanningItemHistory(historyItems)
    /\ covHistory' = getGroupedCoverageHistory(historyItems)
    /\ historyCalled' = TRUE
    /\ historyItems' = InputAfterLoops(historyItems, 1)
    /\ firstRender' = IF firstRender.n = 0
                      THEN [n |-> 1, planning |-> planningHistory', cov |-> covHistory']
                      ELSE [firstRender EXCEPT !.n = @ + 1]
    /\ UNCHANGED historyInput
    /\ UNCHANGED notHistoryVars

(***************************************************************************)
(* Properties of the history aggregator                                    *)
(***************************************************************************)
RECURSIVE Count(_, _)
Count(s, e) ==
    IF s = <<>> THEN 0
    ELSE (IF Head(s) = e THEN 1 ELSE 0) + Count(Tail(s), e)

RECURSIVE CountInGroups(_, _, _)
CountInGroups(cov, ids, e) ==
    IF ids = {} THEN 0
    ELSE LET id == CHOOSE x \in ids : TRUE
         IN  Count(cov[id].items, e) + CountInGroups(cov, ids \ {id}, e)

SetMax(S) == CHOOSE x \in S : \A y \in S : y <= x

\* positions of the input that belong to coverage id c
PositionsOf(c) ==
    { i \in 1..Len(historyItems) :
        HasCoverageId(historyItems[i]) /\ historyItems[i].update.coverage_id = c }

PlanningSetters(c, f) == { i \in PositionsOf(c) : HasPlanningField(historyItems[i], f) }

WorkflowSetters(c) == { i \in PositionsOf(c) : Has(historyItems[i].update, "workflow_status") }

AssignedToSetters(c) == { i \in PositionsOf(c) : Has(historyItems[i].update, "assigned_to") }

AssignedToFieldSetters(c, f) ==
    { i \in AssignedToSetters(c) : Has(historyItems[i].update.assigned_to, f) }

AssignedToFields == {"desk", "user"}

\* the entries of the input and of the two results
EntriesSeen ==
    { historyItems[i] : i \in 1..Len(historyItems) }
    \cup { planningHistory[i] : i \in 1..Len(planningHistory) }
    \cup UNION { { covHistory[c].items[i] : i \in 1..Len(covHistory[c].items) } :
                   c \in DOMAIN covHistory }

\* C1: the planning entries together with the items of all coverage groups
\* hold every input entry exactly as often as the input does, and a group
\* holds only entries of its own coverage id.
C1_Partition ==
    historyCalled =>
        /\ \A e \in EntriesSeen :
              Count(planningHistory, e) + CountInGroups(covHistory, DOMAIN covHistory, e)
                  = Count(historyItems, e)
        /\ \A i \in 1..Len(planningHistory) : ~HasCoverageId(planningHistory[i])
        /\ \A c \in DOMAIN covHistory : \A i \in 1..Len(covHistory[c].items) :
              /\ HasCoverageId(covHistory[c].items[i])
              /\ covHistory[c].items[i].update.coverage_id = c

C1_Witness ==
    /\ historyCalled
    /\ Len(historyItems) = MaxHistory
    /\ Len(planningHistory) >= 1
    /\ \E c \in DOMAIN covHistory : Len(covHistory[c].items) >= 2

\* C2: per coverage id, the aggregated content type, scheduled time and
\* workflow status are those of the last entry of that id carrying the field
\* (the scheduled time as the moment of that entry's timestamp), and the
\* field is absent when no entry of that id carries it.
C2_LatestWins ==
    historyCalled =>
        \A c \in CoverageIds :
            IF PositionsOf(c) = {} THEN ~Has(covHistory, c)
            ELSE /\ Has(covHistory, c)
                 /\ IF PlanningSetters(c, "g2_content_type") = {}
                    THEN ~Has(covHistory[c].planning, "g2_content_type")
                    ELSE /\ Has(covHistory[c].planning, "g2_content_type")
                         /\ covHistory[c].planning.g2_content_type =
                              historyItems[SetMax(PlanningSetters(c, "g2_content_type"))]
                                  .update.planning.g2_content_type
                 /\ IF PlanningSetters(c, "scheduled") = {}
                    THEN ~Has(covHistory[c].planning, "scheduled")
                    ELSE /\ Has(covHistory[c].planning, "scheduled")
                         /\ covHistory[c].planning.scheduled =
                              moment(historyItems[SetMax(PlanningSetters(c, "scheduled"))]
                                         .update.planning.scheduled)
                 /\ IF WorkflowSetters(c) = {}
                    THEN ~Has(covHistory[c], "workflow_status")
                    ELSE /\ Has(covHistory[c], "workflow_status")
                         /\ covHistory[c].workflow_status =
                              historyItems[SetMax(WorkflowSetters(c))].update.workflow_status

\* two entries of one coverage id set the same field to different values
C2_Witness ==
    /\ historyCalled
    /\ \E c \in CoverageIds :
          /\ Cardinality(WorkflowSetters(c)) >= 2
          /\ \E i \in WorkflowSetters(c) :
                historyItems[i].update.workflow_status # covHistory[c].workflow_status
          /\ Cardinality(PlanningSetters(c, "scheduled")) >= 1
          /\ ~Has(covHistory[c].planning, "g2_content_type")

\* C3 as stated: the aggregated assigned_to is the assigned_to of the last
\* entry of the coverage id that carries one.
C3_AssignedToOverwritten ==
    historyCalled =>
        \A c \in DOMAIN covHistory :
            AssignedToSetters(c) # {} =>
                covHistory[c].assigned_to =
                    historyItems[SetMax(AssignedToSetters(c))].update.assigned_to

\* C3 amended: the aggregated assigned_to is merged field by field: each
\* sub-field has the value of the last entry of the coverage id whose
\* assigned_to carries that sub-field, and is absent when none carries it.
C3_AssignedToMerged ==
    historyCalled =>
        \A c \in DOMAIN covHistory : \A f \in AssignedToFields :
            IF AssignedToFieldSetters(c, f) = {}
            THEN ~Has(covHistory[c].assigned_to, f)
            ELSE /\ Has(covHistory[c].assigned_to, f)
                 /\ covHistory[c].assigned_to[f] =
                      historyItems[SetMax(AssignedToFieldSetters(c, f))].update.assigned_to[f]

\* a sub-field of an earlier entry survives a later assigned_to
C3_Witness ==
    /\ historyCalled
    /\ \E c \in DOMAIN covHistory :
          /\ Cardinality(AssignedToSetters(c)) >= 2
          /\ Has(covHistory[c].assigned_to, "user")
          /\ ~Has(historyItems[SetMax(AssignedToSetters(c))].update.assigned_to, "user")

NthOf(S, k) == CHOOSE x \in S : Cardinality({ y \in S : y < x }) = k - 1

PlanningPositions == { i \in 1..Len(historyItems) : ~HasCoverageId(historyItems[i]) }

\* C16: the planning history is the entries without a coverage id, in the
\* order of the input; the items of a group are the entries of its coverage
\* id, in the order of the input.
C16_OrderKept ==
    historyCalled =>
        /\ Len(planningHistory) = Cardinality(PlanningPositions)
        /\ \A k \in 1..Len(planningHistory) :
              planningHistory[k] = historyItems[NthOf(PlanningPositions, k)]
        /\ \A c \in CoverageIds :
              IF PositionsOf(c) = {} THEN ~Has(covHistory, c)
              ELSE /\ Has(covHistory, c)
                   /\ Len(covHistory[c].items) = Cardinality(PositionsOf(c))
                   /\ \A k \in 1..Len(covHistory[c].items) :
                         covHistory[c].items[k] = historyItems[NthOf(PositionsOf(c), k)]

\* two different entries of one coverage id with an entry of another kind
\* between them
C16_Witness ==
    /\ historyCalled
    /\ Len(historyItems) = 3
    /\ \E c \in CoverageIds :
          /\ PositionsOf(c) = {1, 3}
          /\ historyItems[1] # historyItems[3]
          /\ covHistory[c].items = <<historyItems[1], historyItems[3]>>

(***************************************************************************)
(* Planning edit panel                                                     *)
(***************************************************************************)
SAVE == "save"
PUBLISH == "publish"
UNPUBLISH == "unpublish"
SAVE_PUBLISH == "save_publish"
SAVE_UNPUBLISH == "save_unpublish"

saveMethods == {SAVE, PUBLISH, UNPUBLISH, SAVE_PUBLISH, SAVE_UNPUBLISH}

\* onSubmit: the prop the submit handler calls for a save method
\* mutant: the publish-only and save-and-publish cases are swapped
onSubmit_Swapped(method) ==
    CASE method = PUBLISH -> "saveAndPublish"
      [] method = UNPUBLISH -> "saveAndUnpublish"
      [] method = SAVE_PUBLISH -> "publish"
      [] method = SAVE_UNPUBLISH -> "unpublish"
      [] OTHER -> "save"

onSubmit(method) ==
    CASE method = PUBLISH -> "publish"
      [] method = UNPUBLISH -> "unpublish"
      [] method = SAVE_PUBLISH -> "saveAndPublish"
      [] method = SAVE_UNPUBLISH -> "saveAndUnpublish"
      [] OTHER -> "save"

\* handleSaveAndPublish / handleSaveAndUnpublish: the method they store
PublishMethod == IF pristine \/ readOnly THEN PUBLISH ELSE SAVE_PUBLISH

UnpublishMethod == IF pristine \/ readOnly THEN UNPUBLISH ELSE SAVE_UNPUBLISH

\* render: forceReadOnly
\* mutant: the lock is not looked at
forceReadOnly_NoLock == IF eventSpiked \/ planningSpiked THEN TRUE ELSE readOnly

forceReadOnly ==
    IF ~lockedInThisSession \/ eventSpiked \/ planningSpiked THEN TRUE ELSE readOnly

\* render: what is on the screen.  A button is "hidden", "enabled" or
\* "disabled"; the form is "hidden", "readOnly" or "editable".
Button(rendered, disabled) ==
    IF ~rendered THEN "hidden" ELSE IF disabled THEN "disabled" ELSE "enabled"

PanelView ==
    [cancel    |-> Button(~previewHistory /\ ~forceReadOnly, submitting),
     save      |-> Button(~previewHistory /\ ~forceReadOnly /\ showSave, pristine \/ submitting),
     publish   |-> Button(~previewHistory /\ showPublish, submitting \/ notForPublication),
     unpublish |-> Button(~previewHistory /\ showUnpublish, submitting \/ notForPublication),
     close     |-> Button(~previewHistory /\ forceReadOnly, FALSE),
     form      |-> IF previewHistory THEN "hidden"
                   ELSE IF forceReadOnly THEN "readOnly" ELSE "editable"]

NoPress == [button |-> "none", pristine |-> FALSE, readOnly |-> FALSE, dispatched |-> "none"]

PanelInit ==
    /\ pristine = TRUE
    /\ submitting = FALSE
    /\ readOnly \in BOOLEAN
    /\ lockedInThisSession \in BOOLEAN
    /\ planningSpiked \in BOOLEAN
    /\ eventSpiked \in BOOLEAN
    /\ showSave \in BOOLEAN
    /\ showPublish \in BOOLEAN
    /\ showUnpublish \in BOOLEAN
    /\ notForPublication \in BOOLEAN
    /\ saveMethod = SAVE
    /\ previewHistory = FALSE
    /\ lastPress = NoPress

PanelIdle ==
    /\ pristine = TRUE
    /\ submitting = FALSE
    /\ readOnly = FALSE
    /\ lockedInThisSession = TRUE
    /\ planningSpiked = FALSE
    /\ eventSpiked = FALSE
    /\ showSave = TRUE
    /\ showPublish = TRUE
    /\ showUnpublish = TRUE
    /\ notForPublication = FALSE
    /\ saveMethod = SAVE
    /\ previewHistory = FALSE
    /\ lastPress = NoPress

\* handleSave up to the return of the form's submit(): the form validates;
\* when valid it calls onSubmit, which reads the stored save method, and the
\* promise of the dispatched action is pending; when invalid onSubmit is not
\* called and nothing is fulfilled, so the .then of handleSave never runs.
handleSave(button, method, valid) ==
    /\ saveMethod' = method
    /\ lastPress' = [button |-> button, pristine |-> pristine, readOnly |-> readOnly,
                     dispatched |-> IF valid THEN onSubmit(method) ELSE "none"]
    /\ submitting' = valid
    /\ UNCHANGED <<pristine, panelProps, previewHistory>>
    /\ UNCHANGED notPanelVars

\* the Save button: handleSave with the save method as it is stored
PressSave ==
    /\ PanelView.save = "enabled"
    /\ \E valid \in BOOLEAN : handleSave("Save", saveMethod, valid)

\* the Publish button: handleSaveAndPublish
PressPublish ==
    /\ PanelView.publish = "enabled"
    /\ \E valid \in BOOLEAN : handleSave("Publish", PublishMethod, valid)

\* the Unpublish button: handleSaveAndUnpublish
PressUnpublish ==
    /\ PanelView.unpublish = "enabled"
    /\ \E valid \in BOOLEAN : handleSave("Unpublish", UnpublishMethod, valid)

\* the dispatched action resolves: the .then of handleSave restores the
\* save method; a save leaves the form pristine
SubmitResolved ==
    /\ submitting
    /\ submitting' = FALSE
    /\ saveMethod' = SAVE
    /\ pristine' = IF lastPress.dispatched \in {"save", "saveAndPublish", "saveAndUnpublish"}
                   THEN TRUE ELSE pristine
    /\ UNCHANGED <<panelProps, previewHistory, lastPress>>
    /\ UNCHANGED notPanelVars

\* the dispatched action rejects: the .then of handleSave does not run
SubmitRejected ==
    /\ submitting
    /\ submitting' = FALSE
    /\ UNCHANGED <<pristine, panelProps, saveMethod, previewHistory, lastPress>>
    /\ UNCHANGED notPanelVars

\* the user changes a field of the form
EditForm ==
    /\ PanelView.form = "editable"
    /\ ~submitting
    /\ pristine
    /\ pristine' = FALSE
    /\ UNCHANGED <<submitting, panelProps, saveMethod, previewHistory, lastPress>>
    /\ UNCHANGED notPanelVars

\* the store reports the edit lock taken or lost
LockChanged ==
    /\ lockedInThisSession' = ~lockedInThisSession
    /\ UNCHANGED <<pristine, submitting, readOnly, planningSpiked, eventSpiked, showSave,
                   showPublish, showUnpublish, notForPublication, saveMethod,
                   previewHistory, lastPress>>
    /\ UNCHANGED notPanelVars

\* the store reports another read-only state of the planning item
ReadOnlyChanged ==
    /\ readOnly' = ~readOnly
    /\ UNCHANGED <<pristine, submitting, lockedInThisSession, planningSpiked, eventSpiked,
                   showSave, showPublish, showUnpublish, notForPublication, saveMethod,
                   previewHistory, lastPress>>
    /\ UNCHANGED notPanelVars

viewPlanningHistory ==
    /\ ~previewHistory
    /\ previewHistory' = TRUE
    /\ UNCHANGED <<pristine, submitting, panelProps, saveMethod, lastPress>>
    /\ UNCHANGED notPanelVars

closePlanningHistory ==
    /\ previewHistory
    /\ previewHistory' = FALSE
    /\ UNCHANGED <<pristine, submitting, panelProps, saveMethod, lastPress>>
    /\ UNCHANGED notPanelVars

C5_SaveMethodRestored ==
    /\ ~submitting => saveMethod = SAVE
    /\ (lastPress.button = "Save" /\ lastPress.dispatched # "none") =>
          lastPress.dispatched = "save"

\* C6: the form is read-only whenever the lock is not held here or the
\* planning or the event is spiked, and then neither Save nor Cancel is
\* rendered; otherwise the form has the caller's read-only state.
C6_ForcedReadOnly ==
    ~previewHistory =>
        IF ~lockedInThisSession \/ planningSpiked \/ eventSpiked
        THEN /\ PanelView.form = "readOnly"
             /\ PanelView.save = "hidden"
             /\ PanelView.cancel = "hidden"
        ELSE PanelView.form = (IF readOnly THEN "readOnly" ELSE "editable")

\* the lock was lost on an editable form with unsaved changes
C6_Witness ==
    /\ ~previewHistory
    /\ ~lockedInThisSession
    /\ ~readOnly /\ ~planningSpiked /\ ~eventSpiked
    /\ ~pristine /\ showSave
    /\ PanelView.form = "readOnly"
    /\ PanelView.save = "hidden"

\* C22: a press of Publish or Unpublish on a panel that is forced read-only
\* (the lock is not held in this session, or the planning or the event is
\* spiked) dispatches publish or unpublish, never saveAndPublish or
\* saveAndUnpublish, whatever pristine and the caller's readOnly are.
C22_ForcedPublishIsPure ==
    [][(/\ ~lockedInThisSession \/ planningSpiked \/ eventSpiked
        /\ lastPress' # lastPress
        /\ lastPress'.button \in {"Publish", "Unpublish"}
        /\ lastPress'.dispatched # "none")
       => lastPress'.dispatched \in {"publish", "unpublish"}]_vars

(***************************************************************************)
(* Array-field editor (InputArray).  The list is a prop: the editor calls  *)
(* onChange(field, list) and the parent form stores the list it is given.  *)
(* Indices are those of the code, from 0.                                  *)
(***************************************************************************)
MaxLen == 3

MaxConfirms == 2

Elements == {"e1", "e2"}

Labels == {"", "Coverages"}

Lists == UNION { [1..n -> Elements] : n \in 0..MaxLen }

\* value.filter((value, i) => i !== index)
RECURSIVE FilterFrom(_, _, _)
FilterFrom(list, i, index) ==
    IF list = <<>> THEN <<>>
    ELSE IF i # index THEN <<Head(list)>> \o FilterFrom(Tail(list), i + 1, index)
         ELSE FilterFrom(Tail(list), i + 1, index)

\* mutant: every element up to the index is dropped
RemoveIndex_Before(list, index) == SubSeq(list, index + 2, Len(list))

RemoveIndex(list, index) == FilterFrom(list, 0, index)

\* render: showAddButton and isIndexReadOnly
showAddButton ==
    (IF maxCount # 0 THEN Len(value) < maxCount ELSE TRUE) /\ ~arrayReadOnly

\* render: the add button is put next to the label when buttonWithLabel is
\* set and there is a label, and after the rows when buttonWithLabel is not set
addButtonRendered ==
    \/ (label # "" /\ buttonWithLabel /\ showAddButton)
    \/ (~buttonWithLabel /\ showAddButton)

\* mutant: in add-only mode every added row is exempted
isIndexReadOnly_AllAdded(index) ==
    IF addOnly /\ index >= originalCount THEN FALSE ELSE arrayReadOnly

isIndexReadOnly(index) ==
    IF addOnly /\ index = originalCount THEN FALSE ELSE arrayReadOnly

\* the rows on the screen: for each index, the readOnly prop of its row
ArrayRows == [index \in 0..(Len(value) - 1) |-> isIndexReadOnly(index)]

OnChangeCall(list) == [call |-> "onChange", list |-> list]

NotifySuccess == [call |-> "notify.success", list |-> <<>>]

\* mutant: the confirmation's answer is not looked at
RemoveEffects_Always(response, list, index) ==
    <<OnChangeCall(RemoveIndex(list, index)), NotifySuccess>>

\* what remove's confirmation callback calls, in order, for an answer
RemoveEffects(response, list, index) ==
    IF response THEN <<OnChangeCall(RemoveIndex(list, index)), NotifySuccess>> ELSE <<>>

\* the parent form: the list after a run of a handler
ListAfter(list, calls) ==
    IF \E i \in 1..Len(calls) : calls[i].call = "onChange"
    THEN calls[CHOOSE i \in 1..Len(calls) :
                  /\ calls[i].call = "onChange"
                  /\ \A j \in (i + 1)..Len(calls) : calls[j].call # "onChange"].list
    ELSE list

NoAddThenRemove == [phase |-> "none", before |-> <<>>, prompt |-> 0]

Handler(name, list, index, response) ==
    [name |-> name, list |-> list, index |-> index, response |-> response]

NoHandler == Handler("none", <<>>, 0, FALSE)

ArrayInit ==
    /\ value \in Lists
    /\ arrayReadOnly \in BOOLEAN
    /\ addOnly \in BOOLEAN
    /\ originalCount \in (IF addOnly THEN 0..MaxLen ELSE {0})
    /\ maxCount \in 0..MaxLen
    /\ label \in Labels
    /\ buttonWithLabel \in BOOLEAN
    /\ confirms = <<>>
    /\ effects = <<>>
    /\ lastHandler = NoHandler
    /\ addThenRemove = NoAddThenRemove

ArrayIdle ==
    /\ value = <<>>
    /\ arrayReadOnly = FALSE
    /\ addOnly = FALSE
    /\ originalCount = 0
    /\ maxCount = 0
    /\ label = ""
    /\ buttonWithLabel = FALSE
    /\ confirms = <<>>
    /\ effects = <<>>
    /\ lastHandler = NoHandler
    /\ addThenRemove = NoAddThenRemove

\* onAdd, from the add button: the new element is the default element or
\* what its factory returns
onAdd ==
    /\ addButtonRendered
    /\ Len(value) < MaxLen
    /\ \E newElement \in Elements :
          LET calls == <<OnChangeCall(Append(value, newElement))>>
          IN  /\ effects' = calls
              /\ value' = ListAfter(value, calls)
    /\ lastHandler' = Handler("onAdd", value, 0, FALSE)
    /\ addThenRemove' = [phase |-> "added", before |-> value, prompt |-> 0]
    /\ UNCHANGED <<arrayProps, confirms>>
    /\ UNCHANGED notArrayVars

\* remove(index), from the row of an element: the prompt opens, nothing
\* else happens until it is answered
remove ==
    /\ Len(confirms) < MaxConfirms
    /\ \E index \in 0..(Len(value) - 1) :
          /\ confirms' = Append(confirms, index)
          /\ lastHandler' = Handler("remove", value, index, FALSE)
          /\ addThenRemove' =
                IF addThenRemove.phase = "added" /\ index = Len(value) - 1
                THEN [addThenRemove EXCEPT !.phase = "removing", !.prompt = Len(confirms) + 1]
                ELSE NoAddThenRemove
    /\ effects' = <<>>
    /\ UNCHANGED <<value, arrayProps>>
    /\ UNCHANGED notArrayVars

\* a prompt is answered: the callback of remove runs with the list as it is now
ConfirmAnswered ==
    \E k \in 1..Len(confirms), response \in BOOLEAN :
        LET calls == RemoveEffects(response, value, confirms[k])
        IN  /\ effects' = calls
            /\ value' = ListAfter(value, calls)
            /\ confirms' = SubSeq(confirms, 1, k - 1) \o SubSeq(confirms, k + 1, Len(confirms))
            /\ lastHandler' = Handler("confirm", value, confirms[k], response)
            /\ addThenRemove' =
                  IF addThenRemove.phase = "removing" /\ addThenRemove.prompt = k
                  THEN [addThenRemove EXCEPT !.phase = IF response THEN "accepted" ELSE "declined"]
                  ELSE NoAddThenRemove
            /\ UNCHANGED arrayProps
            /\ UNCHANGED notArrayVars

(***************************************************************************)
(* Properties of the array-field editor                                    *)
(***************************************************************************)
\* C8: an add followed by remove(last index): when the prompt is accepted
\* onChange gets the list as it was before the add; when it is declined
\* onChange is not called and the list stays as the add left it.
C8_AddThenRemove ==
    /\ addThenRemove.phase = "accepted" =>
          /\ Len(effects) >= 1
          /\ effects[1] = OnChangeCall(addThenRemove.before)
          /\ value = addThenRemove.before
    /\ addThenRemove.phase = "declined" =>
          /\ effects = <<>>
          /\ value = lastHandler.list
          /\ Len(value) = Len(addThenRemove.before) + 1
          /\ SubSeq(value, 1, Len(value) - 1) = addThenRemove.before

\* an element was added to a list of two different elements and removed again
C8_Witness ==
    /\ addThenRemove.phase = "accepted"
    /\ Len(addThenRemove.before) = 2
    /\ addThenRemove.before[1] # addThenRemove.before[2]
    /\ value = addThenRemove.before

\* the list without the element at index (from 0), the others in order
IsListWithout(short, list, index) ==
    IF index < Len(list)
    THEN /\ Len(short) = Len(list) - 1
         /\ \A j \in 1..Len(short) : short[j] = IF j <= index THEN list[j] ELSE list[j + 1]
    ELSE short = list

\* C9: remove calls nothing until its prompt is answered; an accepted
\* prompt calls onChange with the list of that moment less the element at
\* the index, then the success notification; a declined prompt calls
\* nothing.  No other handler notifies.
C9_RemoveAfterConfirm ==
    /\ lastHandler.name = "remove" => (effects = <<>> /\ value = lastHandler.list)
    /\ (lastHandler.name = "confirm" /\ ~lastHandler.response) =>
          (effects = <<>> /\ value = lastHandler.list)
    /\ (lastHandler.name = "confirm" /\ lastHandler.response) =>
          /\ Len(effects) = 2
          /\ effects[1].call = "onChange"
          /\ IsListWithout(effects[1].list, lastHandler.list, lastHandler.index)
          /\ effects[2] = NotifySuccess
          /\ value = effects[1].list
    /\ (\E i \in 1..Len(effects) : effects[i] = NotifySuccess) =>
          (lastHandler.name = "confirm" /\ lastHandler.response)

\* an accepted prompt removed a middle element of a list that had changed
\* since remove was called
C9_Witness ==
    /\ lastHandler.name = "confirm"
    /\ lastHandler.response
    /\ Len(lastHandler.list) = 3
    /\ lastHandler.index = 1
    /\ lastHandler.list[1] # lastHandler.list[3]
    /\ Len(value) = 2
    /\ confirms # <<>>

ExemptRows == { index \in DOMAIN ArrayRows : ~ArrayRows[index] }

C11_AddButton ==
    /\ addButtonRendered <=> (~arrayReadOnly /\ (maxCount = 0 \/ Len(value) < maxCount))
    /\ (lastHandler.name = "onAdd" /\ maxCount # 0) => Len(value) <= maxCount

(***************************************************************************)
(* Related-articles search modal.  The modal holds the query, the language *)
(* and the provider id; the WithPagination of the UI framework, keyed by   *)
(* the three, asks the modal's getItems for pages.                         *)
(***************************************************************************)
MaxFetches == 4

MaxInstances == 4

LanguageCodes == {"en", "fr"}

Queries == {"", "News", "news"}

Pages == {1, 2}

ProviderId == "provider1"

\* this.state.repo == null
\* mutant: undefined is not taken for null
RepoIsNull_Strict(r) == r = "null"

RepoIsNull(r) == r \in {"null", "undefined"}

\* searchQuery.toLowerCase()
toLowerCase(q) == IF q = "News" THEN "news" ELSE q

\* the key of WithPagination
\* mutant: the language is not part of the key
PaginationKey_NoLanguage(language, query, r) == query \o r

PaginationKey(language, query, r) == language \o query \o r

\* componentDidMount, the .then of the lookup: the id of the provider with
\* the configured name, undefined when there is none
FoundRepoId(listed) == IF listed THEN ProviderId ELSE "undefined"

\* componentDidUpdate: the condition under which loading is set
NeedsLoading(prevLanguage, prevQuery, prevRepo, language, query, r) ==
    prevLanguage # language \/ prevQuery # query \/ prevRepo # r

\* getItems: the request it sends to /search_providers_proxy
\* mutant: the abort signal is not handed to the request
GetItemsRequest_NoSignal(pageNo, language, query, r) ==
    [page |-> pageNo, language |-> language, fullTextSearch |-> toLowerCase(query),
     repo |-> r, abortSignal |-> FALSE]

GetItemsRequest(pageNo, language, query, r) ==
    [page |-> pageNo, language |-> language, fullTextSearch |-> toLowerCase(query),
     repo |-> r, abortSignal |-> TRUE]

\* what a WithPagination shows: nothing yet, the empty result of getItems
\* without a provider, or the items of an answered request
NoItemsYet == [kind |-> "none", page |-> 0, language |-> "", fullTextSearch |-> "", repo |-> ""]

EmptyResult == [kind |-> "empty", page |-> 0, language |-> "", fullTextSearch |-> "", repo |-> ""]

ItemsOf(request) ==
    [kind |-> "items", page |-> request.page, language |-> request.language,
     fullTextSearch |-> request.fullTextSearch, repo |-> request.repo]

Fetch(id, instance, request) == [id |-> id, instance |-> instance, request |-> request]

\* WithPagination: the requests of an instance that its abort ends, those
\* that were given the signal
AbortedBy(instance) == { f \in inFlight : f.instance = instance /\ f.request.abortSignal }

\* WithPagination calls getItems(pageNo) of the modal in state (language,
\* query, r), after ending the pending requests of `ended`
CallGetItems(instance, pageNo, language, query, r, ended) ==
    IF RepoIsNull(r)
    THEN /\ pageItems' = EmptyResult
         /\ inFlight' = inFlight \ ended
         /\ fetchCount' = fetchCount
    ELSE /\ pageItems' = IF instance = paginationInstance THEN pageItems ELSE NoItemsYet
         /\ inFlight' = (inFlight \ ended)
                \cup {Fetch(fetchCount + 1, instance, GetItemsRequest(pageNo, language, query, r))}
         /\ fetchCount' = fetchCount + 1

\* setState of the modal with a new language, query or provider id, the
\* render that follows (a new key unmounts the WithPagination, which ends its
\* request, and mounts a new one, which asks for page 1) and then
\* componentDidUpdate
SetSearchState(language, query, r) ==
    /\ activeLanguage' = language
    /\ searchQuery' = query
    /\ repo' = r
    /\ IF PaginationKey(language, query, r) # PaginationKey(activeLanguage, searchQuery, repo)
       THEN /\ paginationInstance' = paginationInstance + 1
            /\ CallGetItems(paginationInstance + 1, 1, language, query, r,
                            AbortedBy(paginationInstance))
            /\ abortedFetches' =
                  abortedFetches \cup { f.id : f \in AbortedBy(paginationInstance) }
       ELSE UNCHANGED <<paginationInstance, pageItems, inFlight, fetchCount, abortedFetches>>
    /\ loading' = IF NeedsLoading(activeLanguage, searchQuery, repo, language, query, r)
                  THEN TRUE ELSE loading

(***************************************************************************)
(* The selection of the search modal.  A selection is undefined or a list  *)
(* of articles; an article is an object with a guid.                       *)
(***************************************************************************)
MaxSelected == 2

ArticleGuids == {"a1", "a2"}

\* an article as the search proxy returns it
ArticleFromArchive(g) == [guid |-> g, headline |-> "headline"]

\* an article as the caller hands it in with selectedArticles
SelectedBefore(g) == [guid |-> g, search_provider |-> ProviderId]

UndefinedSelection == [defined |-> FALSE, articles |-> <<>>]

Selection(articles) == [defined |-> TRUE, articles |-> articles]

\* props.selectedArticles
InitialSelections ==
    { UndefinedSelection,
      Selection(<<>>),
      Selection(<<SelectedBefore("a1")>>),
      Selection(<<SelectedBefore("a1"), SelectedBefore("a2")>>) }

\* selection ?? []
OrEmpty(selection) == IF selection.defined THEN selection.articles ELSE <<>>

\* JSON.stringify of an article: the keys with an undefined value are left out
StringifyArticle(a) == [k \in { k \in DOMAIN a : a[k] # "undefined" } |-> a[k]]

\* JSON.stringify of a selection: undefined for undefined, else the text of
\* the articles in order
JSONStringify(selection) ==
    IF ~selection.defined THEN [undefined |-> TRUE, text |-> <<>>]
    ELSE [undefined |-> FALSE,
          text |-> [i \in 1..Len(selection.articles) |->
                        StringifyArticle(selection.articles[i])]]

\* render: disabled of the Apply button
\* mutant: the articles are compared by guid
ApplyDisabled_ByGuid ==
    [i \in 1..Len(OrEmpty(selectedArticles)) |-> OrEmpty(selectedArticles)[i].guid]
        = [i \in 1..Len(OrEmpty(currentlySelectedArticles)) |->
               OrEmpty(currentlySelectedArticles)[i].guid]

ApplyDisabled == JSONStringify(selectedArticles) = JSONStringify(currentlySelectedArticles)

\* cleanArticlesFields of ./utils: the selection with its fields cleaned
cleanArticlesFields(articles) == [cleaned |-> articles]

\* the calls of props.onChange that a handler of the modal makes
\* mutant: a change of the selection is handed to the caller at once
SelectionCalls_Eager(handler, selection) ==
    IF handler \in {"apply", "addArticle", "removeArticle"}
    THEN <<cleanArticlesFields(OrEmpty(selection))>> ELSE <<>>

SelectionCalls(handler, selection) ==
    IF handler = "apply" THEN <<cleanArticlesFields(OrEmpty(selection))>> ELSE <<>>

\* [...list].filter(({guid}) => guid !== articleId)
RECURSIVE FilterGuid(_, _)
FilterGuid(list, articleId) ==
    IF list = <<>> THEN <<>>
    ELSE IF Head(list).guid # articleId
         THEN <<Head(list)>> \o FilterGuid(Tail(list), articleId)
         ELSE FilterGuid(Tail(list), articleId)

\* {...article, search_provider: this.state.repo}
WithSearchProvider(article, r) == SetKey(article, "search_provider", r)

SearchOpen == closedBy = "none"

SelectionInit ==
    /\ selectedArticles \in InitialSelections
    /\ currentlySelectedArticles = selectedArticles
    /\ previewItem = "null"
    /\ searchOnChangeCalls = <<>>
    /\ closedBy = "none"

SelectionIdle ==
    /\ selectedArticles = UndefinedSelection
    /\ currentlySelectedArticles = UndefinedSelection
    /\ previewItem = "null"
    /\ searchOnChangeCalls = <<>>
    /\ closedBy = "none"

SearchInit ==
    /\ SelectionInit
    /\ searchQuery = ""
    /\ activeLanguage = ""
    /\ repo = "null"
    /\ languages = {}
    /\ loading = TRUE
    /\ providerLookup \in {"none", "pending"}
    /\ providerListed \in BOOLEAN
    /\ paginationInstance = 1
    /\ pageItems = EmptyResult
    /\ inFlight = {}
    /\ fetchCount = 0
    /\ abortedFetches = {}
    /\ staleApplied = FALSE
    /\ loadingClearedBy = 0

SearchIdle ==
    /\ SelectionIdle
    /\ searchQuery = ""
    /\ activeLanguage = ""
    /\ repo = "null"
    /\ languages = {}
    /\ loading = TRUE
    /\ providerLookup = "none"
    /\ providerListed = FALSE
    /\ paginationInstance = 1
    /\ pageItems = EmptyResult
    /\ inFlight = {}
    /\ fetchCount = 0
    /\ abortedFetches = {}
    /\ staleApplied = FALSE
    /\ loadingClearedBy = 0

\* the lookup of componentDidMount is answered
ProviderLookupResolved ==
    /\ SearchOpen
    /\ UNCHANGED selectionVars
    /\ providerLookup = "pending"
    /\ providerLookup' = "done"
    /\ languages' = LanguageCodes \cup {""}
    /\ SetSearchState(activeLanguage, searchQuery, FoundRepoId(providerListed))
    /\ UNCHANGED <<providerListed, staleApplied, loadingClearedBy>>
    /\ UNCHANGED notSearchVars

\* the lookup of componentDidMount fails: its .then does not run
ProviderLookupFailed ==
    /\ SearchOpen
    /\ UNCHANGED selectionVars
    /\ providerLookup = "pending"
    /\ providerLookup' = "failed"
    /\ UNCHANGED <<searchQuery, activeLanguage, repo, languages, loading, providerListed,
                   paginationInstance, pageItems, inFlight, fetchCount, abortedFetches,
                   staleApplied, loadingClearedBy>>
    /\ UNCHANGED notSearchVars

\* SearchBar onSubmit
SubmitSearchQuery ==
    /\ SearchOpen
    /\ UNCHANGED selectionVars
    /\ fetchCount < MaxFetches
    /\ paginationInstance < MaxInstances
    /\ \E query \in Queries \ {searchQuery} :
          SetSearchState(activeLanguage, query, repo)
    /\ UNCHANGED <<languages, providerLookup, providerListed, staleApplied, loadingClearedBy>>
    /\ UNCHANGED notSearchVars

\* Dropdown onSelect of a language
SelectLanguage ==
    /\ SearchOpen
    /\ UNCHANGED selectionVars
    /\ fetchCount < MaxFetches
    /\ paginationInstance < MaxInstances
    /\ \E language \in languages \ {activeLanguage} :
          SetSearchState(language, searchQuery, repo)
    /\ UNCHANGED <<languages, providerLookup, providerListed, staleApplied, loadingClearedBy>>
    /\ UNCHANGED notSearchVars

\* WithPagination switches the page: it ends its pending request and asks
\* getItems for the page
SwitchPage ==
    /\ SearchOpen
    /\ UNCHANGED selectionVars
    /\ fetchCount < MaxFetches
    /\ pageItems.kind = "items"
    /\ \E pageNo \in Pages \ {pageItems.page} :
          CallGetItems(paginationInstance, pageNo, activeLanguage, searchQuery, repo,
                       AbortedBy(paginationInstance))
    /\ abortedFetches' = abortedFetches \cup { f.id : f \in AbortedBy(paginationInstance) }
    /\ UNCHANGED <<searchQuery, activeLanguage, repo, languages, loading, providerLookup,
                   providerListed, paginationInstance, staleApplied, loadingClearedBy>>
    /\ UNCHANGED notSearchVars

\* a request is answered: the .then of getItems sets loading to false and
\* hands the items to the WithPagination that asked, which shows them if it
\* is still mounted
FetchAnswered ==
    /\ SearchOpen
    /\ UNCHANGED selectionVars
    /\ \E f \in inFlight :
          /\ inFlight' = inFlight \ {f}
          /\ loading' = FALSE
          /\ loadingClearedBy' = f.instance
          /\ pageItems' = IF f.instance = paginationInstance THEN ItemsOf(f.request)
                          ELSE pageItems
          /\ staleApplied' = (staleApplied \/ f.id # fetchCount)
    /\ UNCHANGED <<searchQuery, activeLanguage, repo, languages, providerLookup,
                   providerListed, paginationInstance, fetchCount, abortedFetches>>
    /\ UNCHANGED notSearchVars

\* a request fails: the .then of getItems does not run
FetchFailed ==
    /\ SearchOpen
    /\ UNCHANGED selectionVars
    /\ \E f \in inFlight : inFlight' = inFlight \ {f}
    /\ UNCHANGED <<searchQuery, activeLanguage, repo, languages, loading, providerLookup,
                   providerListed, paginationInstance, pageItems, fetchCount,
                   abortedFetches, staleApplied, loadingClearedBy>>
    /\ UNCHANGED notSearchVars

\* a setState of the modal that leaves language, query and provider id as
\* they are, its render and componentDidUpdate
Rerender == SetSearchState(activeLanguage, searchQuery, repo)

\* addArticle, from a listed article
addArticle ==
    /\ SearchOpen
    /\ pageItems.kind = "items"
    /\ Len(OrEmpty(currentlySelectedArticles)) < MaxSelected
    /\ \E g \in ArticleGuids :
          currentlySelectedArticles' =
              Selection(Append(OrEmpty(currentlySelectedArticles),
                               WithSearchProvider(ArticleFromArchive(g), repo)))
    /\ searchOnChangeCalls' =
          searchOnChangeCalls \o SelectionCalls("addArticle", currentlySelectedArticles')
    /\ Rerender
    /\ UNCHANGED <<selectedArticles, previewItem, closedBy>>
    /\ UNCHANGED <<languages, providerLookup, providerListed, staleApplied, loadingClearedBy>>
    /\ UNCHANGED notSearchVars

\* removeArticle, from a listed article
removeArticle ==
    /\ SearchOpen
    /\ pageItems.kind = "items"
    /\ \E articleId \in ArticleGuids :
          currentlySelectedArticles' =
              Selection(FilterGuid(OrEmpty(currentlySelectedArticles), articleId))
    /\ searchOnChangeCalls' =
          searchOnChangeCalls \o SelectionCalls("removeArticle", currentlySelectedArticles')
    /\ Rerender
    /\ UNCHANGED <<selectedArticles, previewItem, closedBy>>
    /\ UNCHANGED <<languages, providerLookup, providerListed, staleApplied, loadingClearedBy>>
    /\ UNCHANGED notSearchVars

\* setPreview, from a listed article
setPreview ==
    /\ SearchOpen
    /\ pageItems.kind = "items"
    /\ \E g \in ArticleGuids \ {previewItem} : previewItem' = g
    /\ searchOnChangeCalls' =
          searchOnChangeCalls \o SelectionCalls("setPreview", currentlySelectedArticles)
    /\ Rerender
    /\ UNCHANGED <<selectedArticles, currentlySelectedArticles, closedBy>>
    /\ UNCHANGED <<languages, providerLookup, providerListed, staleApplied, loadingClearedBy>>
    /\ UNCHANGED notSearchVars

\* onClose of the preview panel
closePreview ==
    /\ SearchOpen
    /\ previewItem # "null"
    /\ previewItem' = "null"
    /\ searchOnChangeCalls' =
          searchOnChangeCalls \o SelectionCalls("closePreview", currentlySelectedArticles)
    /\ Rerender
    /\ UNCHANGED <<selectedArticles, currentlySelectedArticles, closedBy>>
    /\ UNCHANGED <<languages, providerLookup, providerListed, staleApplied, loadingClearedBy>>
    /\ UNCHANGED notSearchVars

\* closeModal takes the modal away: its state is gone, and so are its
\* WithPagination and the requests of it.  The selection passed in and the
\* pending selection are kept as they were when it was closed.
Unmounted ==
    /\ searchQuery' = ""
    /\ activeLanguage' = ""
    /\ repo' = "null"
    /\ languages' = {}
    /\ loading' = TRUE
    /\ providerLookup' = "none"
    /\ providerListed' = FALSE
    /\ paginationInstance' = 1
    /\ pageItems' = EmptyResult
    /\ inFlight' = {}
    /\ fetchCount' = 0
    /\ abortedFetches' = {}
    /\ loadingClearedBy' = 0
    /\ previewItem' = "null"
    /\ UNCHANGED staleApplied

\* the Apply button: onChange, then closeModal
ApplySelection ==
    /\ SearchOpen
    /\ ~ApplyDisabled
    /\ searchOnChangeCalls' =
          searchOnChangeCalls \o SelectionCalls("apply", currentlySelectedArticles)
    /\ closedBy' = "apply"
    /\ Unmounted
    /\ UNCHANGED <<selectedArticles, currentlySelectedArticles>>
    /\ UNCHANGED notSearchVars

\* closeModal, from the Cancel button or from the modal's onHide
CloseSearchModal ==
    /\ SearchOpen
    /\ \E from \in {"cancel", "onHide"} :
          /\ closedBy' = from
          /\ searchOnChangeCalls' =
                searchOnChangeCalls \o SelectionCalls(from, currentlySelectedArticles)
    /\ Unmounted
    /\ UNCHANGED <<selectedArticles, currentlySelectedArticles>>
    /\ UNCHANGED notSearchVars

(***************************************************************************)
(* Properties of the search modal                                          *)
(***************************************************************************)
\* C7: no response of a superseded request is applied: only the request
\* sent last runs the .then of getItems; the items shown are those of the
\* current language, query and provider; and loading is false only when a
\* request of the mounted WithPagination was answered.
C7_LastFetchWins ==
    /\ ~staleApplied
    /\ \A f \in inFlight : f.id = fetchCount
    /\ pageItems.kind = "items" =>
          /\ pageItems.language = activeLanguage
          /\ pageItems.fullTextSearch = toLowerCase(searchQuery)
          /\ pageItems.repo = repo
    /\ ~loading => loadingClearedBy = paginationInstance

\* the language was changed while a request was pending, and the items of
\* the new language are shown
C7_Witness ==
    /\ abortedFetches # {}
    /\ activeLanguage = "fr"
    /\ pageItems.kind = "items"
    /\ pageItems.language = "fr"
    /\ ~loading
    /\ inFlight = {}

\* C17: while the modal is open, a step that changes the language, the query or the provider id
\* mounts a new WithPagination without items, sets loading, and has the new
\* WithPagination ask getItems for page 1 of the new values (a request to
\* the proxy when there is a provider, the empty result when there is
\* none); a step that changes the selection or the preview leaves the
\* WithPagination, its items, the requests and loading as they are.
C17_KeyChangeRefetches ==
    [][ (closedBy' = "none") =>
        /\ (activeLanguage' # activeLanguage \/ searchQuery' # searchQuery \/ repo' # repo) =>
              /\ paginationInstance' = paginationInstance + 1
              /\ pageItems'.kind # "items"
              /\ loading'
              /\ IF RepoIsNull(repo')
                 THEN pageItems' = EmptyResult /\ fetchCount' = fetchCount
                 ELSE /\ fetchCount' = fetchCount + 1
                      /\ \E f \in inFlight' :
                            /\ f.id = fetchCount'
                            /\ f.instance = paginationInstance'
                            /\ f.request.page = 1
                            /\ f.request.language = activeLanguage'
                            /\ f.request.fullTextSearch = toLowerCase(searchQuery')
                            /\ f.request.repo = repo'
        /\ (currentlySelectedArticles' # currentlySelectedArticles
              \/ previewItem' # previewItem) =>
              /\ paginationInstance' = paginationInstance
              /\ pageItems' = pageItems
              /\ inFlight' = inFlight
              /\ fetchCount' = fetchCount
              /\ loading' = loading
      ]_vars

\* the provider was found, then the language and the query were changed and
\* an article was selected
C17_Witness ==
    /\ repo = ProviderId
    /\ activeLanguage = "fr"
    /\ searchQuery = "news"
    /\ paginationInstance >= 4
    /\ loading
    /\ \E f \in inFlight : f.id = fetchCount /\ f.request.language = "fr"
    /\ currentlySelectedArticles # selectedArticles
    /\ previewItem # "null"

\* C18: when no provider name is configured or the lookup lists no provider
\* of that name, the provider id is null or undefined in every state, no
\* request is ever sent to the proxy, and the WithPagination shows the empty
\* result.
C18_NoProviderNoSearch ==
    (providerLookup = "none" \/ ~providerListed) =>
        /\ RepoIsNull(repo)
        /\ fetchCount = 0
        /\ inFlight = {}
        /\ pageItems = EmptyResult

\* the lookup found no provider of the name, and the language and the query
\* were changed afterwards
C18_Witness ==
    /\ providerLookup = "done"
    /\ ~providerListed
    /\ repo = "undefined"
    /\ activeLanguage = "fr"
    /\ searchQuery = "news"
    /\ paginationInstance >= 4
    /\ pageItems = EmptyResult
    /\ fetchCount = 0

\* the items of the current language, query and provider are shown and no
\* request is pending
ItemsReturned ==
    /\ pageItems.kind = "items"
    /\ pageItems.language = activeLanguage
    /\ pageItems.fullTextSearch = toLowerCase(searchQuery)
    /\ pageItems.repo = repo
    /\ inFlight = {}

\* C23: in the open modal, once getItems has returned its result for the
\* current language, query and provider id (the items of an answered
\* request, or the empty result without a provider id) loading is false.
C23_LoadingCleared ==
    (SearchOpen /\ (pageItems.kind = "empty" \/ ItemsReturned)) => ~loading

\* C19: props.onChange has not been called in any state in which Apply has
\* not been pressed, whatever was added, removed, previewed or searched and
\* however the modal was closed; once Apply has been pressed it has been
\* called exactly once, with the cleaned pending selection.
C19_FlushOnApply ==
    /\ closedBy # "apply" => searchOnChangeCalls = <<>>
    /\ closedBy = "apply" =>
          searchOnChangeCalls = <<cleanArticlesFields(OrEmpty(currentlySelectedArticles))>>

\* Apply was pressed with two articles in a pending selection that started
\* undefined
C19_Witness ==
    /\ closedBy = "apply"
    /\ ~selectedArticles.defined
    /\ Len(OrEmpty(currentlySelectedArticles)) = 2
    /\ currentlySelectedArticles.articles[1] # currentlySelectedArticles.articles[2]
    /\ Len(searchOnChangeCalls) = 1

AddedLast(article) ==
    /\ currentlySelectedArticles.defined
    /\ currentlySelectedArticles.articles = Append(OrEmpty(selectedArticles), article)
    /\ Has(article, "search_provider")
    /\ \A i \in 1..Len(OrEmpty(selectedArticles)) :
           OrEmpty(selectedArticles)[i].guid # article.guid

\* C24: when an article that is not in the selection passed in has been
\* added and is then removed, the pending selection is again identical to
\* the selection passed in, undefined included, and Apply is disabled.
C24_AddThenRemove ==
    [][\A g \in ArticleGuids :
          (/\ SearchOpen
           /\ \E article \in {WithSearchProvider(ArticleFromArchive(g), r) :
                                   r \in {repo, ProviderId}} : AddedLast(article)
           /\ currentlySelectedArticles' # currentlySelectedArticles
           /\ currentlySelectedArticles' =
                  Selection(FilterGuid(OrEmpty(currentlySelectedArticles), g)))
          => /\ currentlySelectedArticles' = selectedArticles
             /\ ApplyDisabled']_vars

(***************************************************************************)
(* Coverage assignment modal (EditCoverageAssignmentModalComponent).       *)
(* Objects that are shared by reference live on a heap: the caller's       *)
(* value, and every draft the modal makes.  A reference is the index of    *)
(* the object on the heap, 0 is undefined.                                 *)
(***************************************************************************)
MaxObjects == 5

\* modalProps.field
ModalField == "coverages[0].assigned_to"

\* modalProps.value: undefined, or an assignment
Undefined == [undefined |-> TRUE]

InitialValues ==
    { Undefined,
      EmptyObject,
      [desk |-> "desk1"],
      [desk |-> "desk1", user |-> "user1",
       coverage_provider |-> [qcode |-> "stringer", name |-> "Stringer"]] }

\* the field paths the assignment editor reports, and the values it reports
FieldPaths == { <<"desk">>, <<"user">>, <<"coverage_provider", "qcode">> }

FieldValues(path) ==
    CASE path = <<"desk">> -> {"desk1", "desk2"}
      [] path = <<"user">> -> {"user1", "user2"}
      [] OTHER -> {"stringer", "agency"}

\* every path to a leaf of an assignment
LeafPaths == FieldPaths \cup { <<"coverage_provider", "name">> }

\* lodash get(o, path): "undefined" when the path is not there
GetPath(o, path) ==
    IF ~Has(o, path[1]) THEN "undefined"
    ELSE IF Len(path) = 1 THEN o[path[1]]
    ELSE IF Has(o[path[1]], path[2]) THEN o[path[1]][path[2]] ELSE "undefined"

\* lodash set(o, path, v) on the content of an object: the objects on the
\* way are created when they are missing
SetPath(o, path, v) ==
    IF Len(path) = 1 THEN SetKey(o, path[1], v)
    ELSE SetKey(o, path[1],
                SetKey(IF Has(o, path[1]) THEN o[path[1]] ELSE EmptyObject, path[2], v))

\* cloneDeep(ref): a new object with a copy of the content, at a new reference
\* mutant: the object itself is handed back
cloneDeep_Alias(h, ref) == [heap |-> h, ref |-> ref]

cloneDeep(h, ref) == [heap |-> Append(h, h[ref]), ref |-> Len(h) + 1]

\* constructor: cloneDeep(props.modalProps.value) ?? {}
InitialDiff(h, ref) ==
    IF ref = 0 THEN [heap |-> Append(h, EmptyObject), ref |-> Len(h) + 1]
    ELSE cloneDeep(h, ref)

\* a call of a prop, with the draft handed to it and whether the modal was
\* submitting when it was called
ModalCall(name, field, ref, content) ==
    [call |-> name, field |-> field, ref |-> ref, content |-> content,
     submitting |-> modalSubmitting]

\* the callback of onSubmit's setState: the calls it makes, in order
\* mutant: the default desk is set before the value is persisted
SubmitCalls_DeskFirst(ref, content) ==
    << ModalCall("setCoverageDefaultDesk", "", ref, content),
       ModalCall("onChange", ModalField, ref, content),
       ModalCall("handleHide", "", 0, EmptyObject) >>

SubmitCalls(ref, content) ==
    << ModalCall("onChange", ModalField, ref, content),
       ModalCall("setCoverageDefaultDesk", "", ref, content),
       ModalCall("handleHide", "", 0, EmptyObject) >>

\* render: the buttons of the modal
\* mutant: OK looks at valid only
ModalView_ValidOnly ==
    [ok        |-> Button(TRUE, ~modalValid),
     cancel    |-> Button(TRUE, modalSubmitting),
     closeIcon |-> Button(~modalSubmitting, FALSE)]

ModalView ==
    [ok        |-> Button(TRUE, ~modalValid \/ modalSubmitting),
     cancel    |-> Button(TRUE, modalSubmitting),
     closeIcon |-> Button(~modalSubmitting, FALSE)]

NoEdit == [path |-> <<>>, value |-> "", prevRef |-> 0, prevContent |-> EmptyObject]

ModalInit ==
    /\ modalShown = FALSE
    /\ heap = <<>>
    /\ modalValue = 0
    /\ diff = 0
    /\ modalValid = TRUE
    /\ modalSubmitting = FALSE
    /\ modalCalls = <<>>
    /\ valueAtOpen = Undefined
    /\ lastEdit = NoEdit
    /\ edits = EmptyObject
    /\ lastClose = "none"

ModalIdle == ModalInit

\* the modal is opened for a value of the caller: the constructor
OpenModal ==
    /\ ~modalShown
    /\ \E v \in InitialValues :
          LET h0 == IF v = Undefined THEN <<>> ELSE <<v>>
              ref == IF v = Undefined THEN 0 ELSE 1
              d == InitialDiff(h0, ref)
          IN  /\ heap' = d.heap
              /\ modalValue' = ref
              /\ diff' = d.ref
              /\ valueAtOpen' = v
    /\ modalShown' = TRUE
    /\ modalValid' = TRUE
    /\ modalSubmitting' = FALSE
    /\ modalCalls' = <<>>
    /\ lastEdit' = NoEdit
    /\ edits' = EmptyObject
    /\ lastClose' = "none"
    /\ UNCHANGED notModalVars

\* onChange(field, value), from the assignment editor
modalOnChange ==
    /\ modalShown
    /\ ~modalSubmitting
    /\ Len(heap) < MaxObjects
    /\ \E path \in FieldPaths : \E v \in FieldValues(path) :
          LET diffCopy == cloneDeep(heap, diff)
          IN  /\ heap' = [diffCopy.heap EXCEPT ![diffCopy.ref] = SetPath(@, path, v)]
              /\ diff' = diffCopy.ref
              /\ lastEdit' = [path |-> path, value |-> v, prevRef |-> diff,
                              prevContent |-> heap[diff]]
              /\ edits' = SetKey(edits, path, v)
    /\ UNCHANGED <<modalShown, modalValue, modalValid, modalSubmitting, modalCalls,
                   valueAtOpen, lastClose>>
    /\ UNCHANGED notModalVars

\* setValid(valid), from the assignment editor
setValid ==
    /\ modalShown
    /\ ~modalSubmitting
    /\ modalValid' = ~modalValid
    /\ UNCHANGED <<modalShown, heap, modalValue, diff, modalSubmitting, modalCalls,
                   valueAtOpen, lastEdit, edits, lastClose>>
    /\ UNCHANGED notModalVars

\* onSubmit, from the OK button: setState({submitting: true}) and the render
\* that follows; the callback of the setState runs after that render
modalOnSubmit ==
    /\ modalShown
    /\ ModalView.ok = "enabled"
    /\ modalSubmitting' = TRUE
    /\ UNCHANGED <<modalShown, heap, modalValue, diff, modalValid, modalCalls,
                   valueAtOpen, lastEdit, edits, lastClose>>
    /\ UNCHANGED notModalVars

\* mutant: the callback ends the submit and the modal stays
SubmitCallback_StaysOpen ==
    /\ modalShown
    /\ modalSubmitting
    /\ Len(modalCalls) < 6
    /\ modalCalls' = modalCalls \o SubmitCalls(diff, heap[diff])
    /\ modalSubmitting' = FALSE
    /\ lastClose' = "submit"
    /\ UNCHANGED <<modalShown, heap, modalValue, diff, modalValid,
                   valueAtOpen, lastEdit, edits>>
    /\ UNCHANGED notModalVars

\* the callback of onSubmit's setState; handleHide takes the modal away
SubmitCallback ==
    /\ modalShown
    /\ modalSubmitting
    /\ modalCalls' = modalCalls \o SubmitCalls(diff, heap[diff])
    /\ modalShown' = FALSE
    /\ lastClose' = "submit"
    /\ UNCHANGED <<heap, modalValue, diff, modalValid, modalSubmitting,
                   valueAtOpen, lastEdit, edits>>
    /\ UNCHANGED notModalVars

\* handleHide, from Cancel, from the close icon or from the modal's onHide
HideModal ==
    /\ modalShown
    /\ ~modalSubmitting
    /\ \E from \in {"cancel", "closeIcon", "onHide"} :
          /\ from # "onHide" => ModalView[from] = "enabled"
          /\ lastClose' = from
    /\ modalCalls' = Append(modalCalls, ModalCall("handleHide", "", 0, EmptyObject))
    /\ modalShown' = FALSE
    /\ UNCHANGED <<heap, modalValue, diff, modalValid, modalSubmitting,
                   valueAtOpen, lastEdit, edits>>
    /\ UNCHANGED notModalVars

(***************************************************************************)
(* Properties of the coverage assignment modal                             *)
(***************************************************************************)
\* C12: while the modal is shown, OK is disabled when the draft is invalid
\* or a submit is in progress and enabled otherwise; while submitting,
\* Cancel is disabled and the close icon is not rendered.
C12_SubmitGuard ==
    modalShown =>
        /\ ModalView.ok = (IF ~modalValid \/ modalSubmitting THEN "disabled" ELSE "enabled")
        /\ modalSubmitting => (ModalView.cancel = "disabled" /\ ModalView.closeIcon = "hidden")
        /\ ~modalSubmitting => (ModalView.cancel = "enabled" /\ ModalView.closeIcon = "enabled")

\* OK was pressed on a valid, edited draft: the modal is shown submitting
C12_Witness ==
    /\ modalShown
    /\ modalSubmitting
    /\ modalValid
    /\ lastEdit # NoEdit
    /\ ModalView.ok = "disabled"

\* C13: a submit makes three calls and no other: the persist-value callback
\* with (field, draft), the set-default-desk callback with the same draft,
\* then handleHide, all while the modal is submitting; and the draft handed
\* over holds the last value of every field edited since the modal opened
\* and the opening value of the other fields.
C13_SubmitOrder ==
    lastClose = "submit" =>
        /\ Len(modalCalls) = 3
        /\ modalCalls[1].call = "onChange" /\ modalCalls[1].field = ModalField
        /\ modalCalls[2].call = "setCoverageDefaultDesk"
        /\ modalCalls[3].call = "handleHide"
        /\ \A i \in 1..3 : modalCalls[i].submitting
        /\ modalCalls[1].ref = diff /\ modalCalls[2].ref = diff
        /\ modalCalls[1].content = modalCalls[2].content
        /\ \A path \in LeafPaths :
              GetPath(modalCalls[1].content, path) =
                  IF Has(edits, path) THEN edits[path]
                  ELSE IF valueAtOpen = Undefined THEN "undefined"
                  ELSE GetPath(valueAtOpen, path)

\* two fields were edited, one of them twice, before OK
C13_Witness ==
    /\ lastClose = "submit"
    /\ Cardinality(DOMAIN edits) = 2
    /\ Len(heap) = MaxObjects
    /\ valueAtOpen # Undefined
    /\ \E path \in LeafPaths \ DOMAIN edits : GetPath(valueAtOpen, path) # "undefined"

\* C14: the draft is an object of its own, equal to the caller's value when
\* the modal opens; an edit makes a new draft that differs from the previous
\* one in the edited path only; the caller's value and the previous draft
\* keep their content; and a modal closed without OK has called neither the
\* persist-value nor the set-default-desk callback.
C14_DraftIsolated ==
    /\ (modalShown /\ lastEdit = NoEdit) =>
          /\ diff # modalValue
          /\ heap[diff] = (IF valueAtOpen = Undefined THEN EmptyObject ELSE valueAtOpen)
    /\ modalValue # 0 => heap[modalValue] = valueAtOpen
    /\ lastEdit # NoEdit =>
          /\ diff # lastEdit.prevRef
          /\ heap[lastEdit.prevRef] = lastEdit.prevContent
          /\ \A path \in LeafPaths :
                GetPath(heap[diff], path) =
                    IF path = lastEdit.path THEN lastEdit.value
                    ELSE GetPath(lastEdit.prevContent, path)
    /\ lastClose \in {"cancel", "closeIcon", "onHide"} =>
          \A i \in 1..Len(modalCalls) : modalCalls[i].call = "handleHide"

\* an edited draft was cancelled: the caller's value is as it was
C14_Witness ==
    /\ lastClose = "cancel"
    /\ modalValue # 0
    /\ lastEdit.path = <<"coverage_provider", "qcode">>
    /\ heap[diff] # valueAtOpen
    /\ GetPath(heap[diff], <<"coverage_provider", "name">>) = "Stringer"
    /\ heap[modalValue] = valueAtOpen

\* the calls of one name among the calls of this opening
CallsOf(name) == {i \in 1..Len(modalCalls) : modalCalls[i].call = name}

\* C25: in one opening of the modal the persist-value callback, the
\* set-default-desk callback and the handleHide of a submit are each called
\* at most once and OK is not enabled while submitting; and submitting,
\* once true, stays true for as long as that opening lasts.
C25_SubmitOnce ==
    /\ [](/\ Cardinality(CallsOf("onChange")) <= 1
          /\ Cardinality(CallsOf("setCoverageDefaultDesk")) <= 1
          /\ Cardinality({i \in CallsOf("handleHide") : modalCalls[i].submitting}) <= 1
          /\ (modalShown /\ modalSubmitting) => ModalView.ok # "enabled")
    /\ [][(modalSubmitting /\ ~(~modalShown /\ modalShown')) => modalSubmitting']_vars

\* a submit of an edited draft has made each of its calls once and the
\* modal is gone, still submitting
C25_Witness ==
    /\ ~modalShown
    /\ modalSubmitting
    /\ lastEdit # NoEdit
    /\ Cardinality(CallsOf("onChange")) = 1
    /\ Cardinality(CallsOf("setCoverageDefaultDesk")) = 1
    /\ Cardinality({i \in CallsOf("handleHide") : modalCalls[i].submitting}) = 1

(***************************************************************************)
(* The posted-history row: getPostedHistoryElement and getHistoryRowElement *)
(* Labels are in the source language (gettext without a catalogue).         *)
(***************************************************************************)
MaxPosted == 2

\* the operations the row is for, and one of the others
HISTORY_OPERATIONS ==
    [POST |-> "post", EVENTS_CANCEL |-> "events_cancel",
     PLANNING_CANCEL |-> "planning_cancel", UPDATE |-> "update"]

POST_STATE == [USABLE |-> "usable", CANCELLED |-> "cancelled"]

\* the users directory: _id to display_name
Users == ("user1" :> "Ada")

\* history entries: the update is without pubstatus or has one of the two
\* states; event_id and user_id are keys an entry may lack
PostedEntries ==
    LET operations == {HISTORY_OPERATIONS[k] : k \in DOMAIN HISTORY_OPERATIONS}
        updates == {EmptyObject}
                       \cup {("pubstatus" :> POST_STATE[k]) : k \in DOMAIN POST_STATE}
        base == {("operation" :> op) @@ ("update" :> u) @@ ("_created" :> "2019-02-01")
                     : op \in operations, u \in updates}
        withEvent == base \cup {("event_id" :> "event1") @@ e : e \in base}
    IN  withEvent \cup {("user_id" :> "user1") @@ e : e \in withEvent}

PostedLists == UNION {[1..n -> PostedEntries] : n \in 1..MaxPosted}

\* a function that returned nothing
NoElement == [rendered |-> FALSE]

getDisplayUser(historyItem, users) ==
    IF Has(historyItem, "user_id") /\ historyItem.user_id \in DOMAIN users
    THEN users[historyItem.user_id]
    ELSE ""

\* the <div> of a row: the text, " by " when the entry has a user, the
\* user's display name and the date
getHistoryRowElement(text, historyItem, users) ==
    IF text # ""
    THEN [rendered |-> TRUE,
          text |-> text,
          by |-> IF Has(historyItem, "user_id") THEN " by " ELSE "",
          userName |-> getDisplayUser(historyItem, users),
          date |-> historyItem["_created"]]
    ELSE NoElement

\* get(historyItem, 'update.pubstatus') === POST_STATE.CANCELLED
PubstatusCancelled(historyItem) ==
    /\ Has(historyItem, "update")
    /\ Has(historyItem.update, "pubstatus")
    /\ historyItem.update.pubstatus = POST_STATE.CANCELLED

\* index counts from 0
getPostedHistoryElement_PostOnly(index, items, users) ==
    LET historyItem == items[index + 1]
        itemType == IF Has(historyItem, "event_id") THEN "Event " ELSE "Planning "
    IN  IF historyItem.operation # HISTORY_OPERATIONS.POST
        THEN NoElement
        ELSE getHistoryRowElement(
                 IF PubstatusCancelled(historyItem)
                 THEN itemType \o "unposted" ELSE itemType \o "posted",
                 historyItem, users)

getPostedHistoryElement(index, items, users) ==
    LET historyItem == items[index + 1]
        itemType == IF Has(historyItem, "event_id") THEN "Event " ELSE "Planning "
    IN  IF /\ historyItem.operation # HISTORY_OPERATIONS.POST
           /\ historyItem.operation # HISTORY_OPERATIONS.EVENTS_CANCEL
           /\ historyItem.operation # HISTORY_OPERATIONS.PLANNING_CANCEL
        THEN NoElement
        ELSE getHistoryRowElement(
                 IF PubstatusCancelled(historyItem)
                 THEN itemType \o "unposted" ELSE itemType \o "posted",
                 historyItem, users)

PostedInit ==
    /\ postedItems \in PostedLists
    /\ postedIndex = -1
    /\ postedElement = NoElement

PostedIdle ==
    /\ postedItems = <<>>
    /\ postedIndex = -1
    /\ postedElement = NoElement

\* the history list renders the row of one entry
RenderPostedRow ==
    /\ \E index \in 0..(Len(postedItems) - 1) :
          /\ index # postedIndex
          /\ postedIndex' = index
          /\ postedElement' = getPostedHistoryElement(index, postedItems, Users)
    /\ UNCHANGED postedItems
    /\ UNCHANGED notPostedVars

\* the entry the last call was about
PostedItem == postedItems[postedIndex + 1]

\* C21: for an entry of another operation nothing is returned; for post,
\* events-cancel and planning-cancel the label is the prefix, "Event " when
\* the entry has an event_id field and "Planning " otherwise, followed by
\* "unposted" when update.pubstatus is the cancelled state and by "posted"
\* otherwise
C21_PostedLabel ==
    postedIndex >= 0 =>
        LET prefix == IF "event_id" \in DOMAIN PostedItem THEN "Event" ELSE "Planning"
            cancelled == /\ "pubstatus" \in DOMAIN PostedItem.update
                         /\ PostedItem.update.pubstatus = "cancelled"
        IN  IF PostedItem.operation \in {"post", "events_cancel", "planning_cancel"}
            THEN /\ postedElement.rendered
                 /\ postedElement.text =
                        prefix \o " " \o (IF cancelled THEN "unposted" ELSE "posted")
            ELSE ~postedElement.rendered

\* a planning cancel of an event-linked entry with the cancelled state,
\* shown after a row of another operation that gave nothing
C21_Witness ==
    /\ postedIndex = 1
    /\ postedItems[1].operation = "update"
    /\ PostedItem.operation = "planning_cancel"
    /\ Has(PostedItem, "event_id")
    /\ PubstatusCancelled(PostedItem)
    /\ postedElement.rendered
    /\ postedElement.text = "Event unposted"

(***************************************************************************)
(* Specifications                                                          *)
(***************************************************************************)
InitHistory == HistoryInit /\ PanelIdle /\ ArrayIdle /\ SearchIdle /\ ModalIdle /\ PostedIdle

NextHistory == RenderHistory

SpecHistory == InitHistory /\ [][NextHistory]_vars

InitPanel == PanelInit /\ HistoryIdle /\ ArrayIdle /\ SearchIdle /\ ModalIdle /\ PostedIdle

NextPanel ==
    \/ PressSave
    \/ PressPublish
    \/ PressUnpublish
    \/ SubmitResolved
    \/ SubmitRejected
    \/ EditForm
    \/ LockChanged
    \/ ReadOnlyChanged
    \/ viewPlanningHistory
    \/ closePlanningHistory

SpecPanel == InitPanel /\ [][NextPanel]_vars

InitArray == ArrayInit /\ HistoryIdle /\ PanelIdle /\ SearchIdle /\ ModalIdle /\ PostedIdle

NextArray ==
    \/ onAdd
    \/ remove
    \/ ConfirmAnswered

SpecArray == InitArray /\ [][NextArray]_vars

InitSearch == SearchInit /\ HistoryIdle /\ PanelIdle /\ ArrayIdle /\ ModalIdle /\ PostedIdle

NextSearch ==
    \/ ProviderLookupResolved
    \/ ProviderLookupFailed
    \/ SubmitSearchQuery
    \/ SelectLanguage
    \/ SwitchPage
    \/ FetchAnswered
    \/ FetchFailed
    \/ addArticle
    \/ removeArticle
    \/ setPreview
    \/ closePreview
    \/ ApplySelection
    \/ CloseSearchModal

SpecSearch == InitSearch /\ [][NextSearch]_vars

InitModal == ModalInit /\ HistoryIdle /\ PanelIdle /\ ArrayIdle /\ SearchIdle /\ PostedIdle

NextModal ==
    \/ OpenModal
    \/ modalOnChange
    \/ setValid
    \/ modalOnSubmit
    \/ SubmitCallback
    \/ HideModal

SpecModal == InitModal /\ [][NextModal]_vars

InitPosted ==
    /\ PostedInit /\ HistoryIdle /\ PanelIdle /\ ArrayIdle /\ SearchIdle /\ ModalIdle

NextPosted == RenderPostedRow

SpecPosted == InitPosted /\ [][NextPosted]_vars

====
